---- MODULE Spec2Model ----
(***************************************************************************)
(* Interview slot booking API: the booking and cancellation handlers       *)
(* (bookingController), the slot handlers and the overlap check            *)
(* (slotController), over the Slot and Booking collections.                *)
(*                                                                         *)
(* Every step is one database operation of a handler together with the     *)
(* synchronous code that follows it up to the next await.  Writes made in  *)
(* a session's transaction stay invisible until commitTransaction and hold *)
(* the written document: a second transaction that writes it gets a        *)
(* WriteConflict error, a write outside a transaction waits.               *)
(***************************************************************************)
EXTENDS Integers, Sequences, FiniteSets, TLC

\* ------------------------------------------------------------------ bounds
MaxTime == 3
MaxCapacity == 2
MaxSlots == 2
NumRequests == 2

\* ------------------------------------------------------------ value spaces
Admins == {"a1", "a2"}
Candidates == {"c1", "c2"}
Procs == 1..NumRequests
Times == 1..MaxTime
SlotIds == 1..MaxSlots

\* `undefined`: a body field the request does not carry, a property the
\* object does not have.
Absent == 0 - 1
\* An id string that mongoose.Types.ObjectId.isValid rejects.
BadId == 0
\* The string compared with booking.candidateId.toString() when the property
\* read yields undefined.
Undefined == "undefined"

ObjectIdIsValid(id) == id # BadId

\* The tags of every slot of the model: the requests carry none, and line
\* 321 stores [] then.
NoTags == <<>>

NoSlot == [_id |-> 0, startTime |-> 0, endTime |-> 0, capacity |-> 0,
           bookedCount |-> 0, createdBy |-> "-", tags |-> NoTags]
NoReq == [op |-> "-", user |-> "-", id |-> 0, startTime |-> Absent,
          endTime |-> Absent, capacity |-> Absent, fresh |-> FALSE, own |-> FALSE,
          moves |-> FALSE]
NoLoc == [read |-> NoSlot, doc |-> NoSlot]

VARIABLES
    slots,          \* the Slot collection: committed documents
    slotIdsIssued,  \* number of Slot _ids generated so far (never reused)
    bookings,       \* the Booking collection: committed documents
    pc,             \* per handler instance: the await it is at
    req,            \* per handler instance: the request it serves
    loc,            \* per handler instance: the documents it holds in memory
    res,            \* per handler instance: the response it sent
    session         \* per handler instance: its session and transaction

vars == <<slots, slotIdsIssued, bookings, pc, req, loc, res, session>>

\* ------------------------------------------------- sessions and transactions
\* A handler's session: the state of its transaction as the driver tracks
\* it, and how often the handler has called commitTransaction,
\* abortTransaction and endSession on it.
NoSession == [txn |-> "none", commits |-> 0, aborts |-> 0, ends |-> 0]

\* mongoose.startSession() and session.startTransaction() (lines 7-8,
\* 167-168).
startSession == [NoSession EXCEPT !.txn = "active"]

\* session.abortTransaction() throws unless a transaction is in progress:
\* after an abort ("Cannot call abortTransaction twice") and after
\* commitTransaction was called, whether or not the commit went through.
abortThrows(s) == s.txn # "active"

\* session.abortTransaction(): the call is counted; it ends the transaction
\* when it does not throw.
abortTransaction(s) ==
    [s EXCEPT !.aborts = @ + 1,
              !.txn = IF abortThrows(s) THEN @ ELSE "aborted"]

\* session.commitTransaction(): the driver marks the transaction committed
\* when the call is made.
commitTransaction(s) == [s EXCEPT !.commits = @ + 1, !.txn = "committed"]

\* session.endSession()
endSession(s) == [s EXCEPT !.ends = @ + 1]

\* The two calls every early return and the catch make (lines 16-17, 30-31,
\* 48-49, 76-77).
abortAndEnd(s) == endSession(abortTransaction(s))

\* ------------------------------------------------------------- the stores
\* Slot.findById(id) / Slot.exists({_id: id}): the set holds the document.
SlotFindById(id) == {s \in slots : s._id = id}

\* Booking.findOne({slotId, candidateId})
BookingFindOne(slotId, candidateId) ==
    {b \in bookings : b.slotId = slotId /\ b.candidateId = candidateId}

\* Booking.findById(id)
BookingFindById(id) == {b \in bookings : b._id = id}

\* The transaction of handler q has written slot document id and has not
\* ended: after the conditional increment, before commit or abort.
HoldsSlot(q, id) ==
    /\ req[q].op = "Book"
    /\ pc[q] \in {"create", "commit"}
    /\ req[q].id = id

SlotLockedByOther(p, id) == \E q \in DOMAIN pc \ {p} : HoldsSlot(q, id)

\* --------------------------------------------------------------- responses
\* What stays known of a request once it is answered: the operation, who
\* asked and for which document.
Answered(r) ==
    [r EXCEPT !.startTime = Absent, !.endTime = Absent, !.capacity = Absent]

\* res.status(...).json(...): handler p answers request r; its locals are
\* gone.
Respond(p, r, answer) ==
    /\ pc' = [pc EXCEPT ![p] = "done"]
    /\ req' = [req EXCEPT ![p] = Answered(r)]
    /\ res' = [res EXCEPT ![p] = answer]
    /\ loc' = [loc EXCEPT ![p] = NoLoc]

\* Handler p, serving request r, reaches the await `at` holding `l`.
Await(p, r, at, l) ==
    /\ pc' = [pc EXCEPT ![p] = at]
    /\ req' = [req EXCEPT ![p] = r]
    /\ res' = [res EXCEPT ![p] = "-"]
    /\ loc' = [loc EXCEPT ![p] = l]

\* Handler p now has session s.
Session(p, s) == session' = [session EXCEPT ![p] = s]

\* The handler ends without sending a response to request r.
Crash(p, r) ==
    /\ pc' = [pc EXCEPT ![p] = "crashed"]
    /\ req' = [req EXCEPT ![p] = Answered(r)]
    /\ loc' = [loc EXCEPT ![p] = NoLoc]
    /\ UNCHANGED res

\* The handler's promise rejects inside its catch.  What follows is the
\* router's business: a router that ignores the promise a handler returns
\* leaves the request unanswered, one that forwards the rejection reaches
\* errorHandler (slotRoutes.js line 61), which answers 500.
Rejected(p, r) == Crash(p, r) \/ Respond(p, r, "Internal")

\* The catch of createBooking and cancelBooking (lines 75-92, 236-250) with
\* the session as s: abortTransaction, endSession, then the answer.  When
\* abortTransaction throws, nothing after it runs.
Catch(p, r, s, answer) ==
    IF abortThrows(s)
    THEN Rejected(p, r) /\ Session(p, abortTransaction(s))
    ELSE Respond(p, r, answer) /\ Session(p, abortAndEnd(s))

\* Each handler instance serves one request; instances take their requests
\* in the order of their numbers.
Free(p) == pc[p] = "idle" /\ \A q \in DOMAIN pc : q < p => pc[q] # "idle"

\* ---------------------------------------------- the database at start-up
\* The collections outlive the server: at start-up they are empty or hold
\* what earlier runs left.  The model starts from every store of at most
\* one slot (of admin a1) that satisfies the data model: startTime < endTime,
\* capacity >= 1, at most one reservation per candidate, and bookedCount
\* the number of BOOKED reservations, at most capacity.
CandidateNo(c) == IF c = "c1" THEN 1 ELSE 2

SeedBookings(status) ==
    {[_id |-> Cardinality({d \in Candidates : status[d] # "none" /\
                                               CandidateNo(d) <= CandidateNo(c)}),
      slotId |-> 1, candidateId |-> c, status |-> status[c]] :
        c \in {d \in Candidates : status[d] # "none"}}

SeedStores ==
    {[slots |-> {}, issued |-> 0, bookings |-> {}]} \cup
    {[slots |-> {[_id |-> 1, startTime |-> s, endTime |-> e, capacity |-> cap,
                  bookedCount |-> Cardinality({c \in Candidates : st[c] = "BOOKED"}),
                  createdBy |-> "a1", tags |-> NoTags]},
      issued |-> 1,
      bookings |-> SeedBookings(st)] :
        s \in Times, e \in Times, cap \in 1..MaxCapacity,
        st \in [Candidates -> {"none", "BOOKED", "CANCELLED"}]}

Init ==
    /\ \E db \in SeedStores :
          /\ \A s \in db.slots : s.startTime < s.endTime /\ s.bookedCount <= s.capacity
          /\ slots = db.slots
          /\ slotIdsIssued = db.issued
          /\ bookings = db.bookings
    /\ pc = [p \in Procs |-> "idle"]
    /\ req = [p \in Procs |-> NoReq]
    /\ loc = [p \in Procs |-> NoLoc]
    /\ res = [p \in Procs |-> "-"]
    /\ session = [p \in Procs |-> NoSession]

\* ------------------------------------------------ bookingController.createBooking
\* The request as the handler keeps it; fresh records that, when the
\* request was fired, the slot had capacity 1, no seat taken and no
\* reservation of the candidate.
BookReq(c, slotId) ==
    [NoReq EXCEPT !.op = "Book", !.user = c, !.id = slotId,
        !.fresh = /\ \E s \in SlotFindById(slotId) :
                        s.capacity = 1 /\ s.bookedCount = 0
                  /\ BookingFindOne(slotId, c) = {}]

\* The fast-fail test with the wrong status constant.
AlreadyBooked_m(found) == \E b \in found : b.status = "CANCELLED"

\* Lines 28-29: the fast-fail test on what findOne returned.
AlreadyBooked(found) == \E b \in found : b.status = "BOOKED"

\* Lines 7-38: session and transaction start, id validation, and the
\* duplicate check read outside the session.
createBooking_check(p) ==
    /\ Free(p)
    /\ \E c \in Candidates, slotId \in SlotIds \cup {BadId} :
          LET r == BookReq(c, slotId) IN
          IF ~ObjectIdIsValid(slotId)
          THEN Respond(p, r, "InvalidIdentifier") /\ Session(p, abortAndEnd(startSession))
          ELSE IF AlreadyBooked(BookingFindOne(slotId, c))
          THEN Respond(p, r, "DuplicateBooking") /\ Session(p, abortAndEnd(startSession))
          ELSE Await(p, r, "inc", NoLoc) /\ Session(p, startSession)
    /\ UNCHANGED <<slots, slotIdsIssued, bookings>>

\* A conditional update issued without the session: its increment is not
\* part of what commit makes visible.
IncBooked_m(s) == s

\* The increment of the conditional update as commit applies it (line 43).
IncBooked(s) == [s EXCEPT !.bookedCount = s.bookedCount + 1]

\* The filter of the conditional update, line 42.
HasFreeSeat(s) == s.bookedCount < s.capacity

\* What the conditional update saw under the requested _id: the slot
\* document, or NoSlot.  The handler itself learns only that nothing matched
\* (updatedSlot is null); the record serves to state what the follow-up
\* existence check ought to answer.
SeenByUpdate(id) ==
    IF SlotFindById(id) = {} THEN NoSlot ELSE CHOOSE s \in SlotFindById(id) : TRUE

\* Lines 41-49: findOneAndUpdate in the transaction.  No match: the
\* transaction is aborted and the existence check follows.  A match on a
\* document another transaction holds: WriteConflict, thrown to the catch.
createBooking_inc(p) ==
    /\ pc[p] = "inc"
    /\ LET match == {s \in SlotFindById(req[p].id) : HasFreeSeat(s)} IN
       IF match = {}
       THEN /\ Await(p, req[p], "exists", [NoLoc EXCEPT !.read = SeenByUpdate(req[p].id)])
            /\ Session(p, abortAndEnd(session[p]))
       ELSE IF SlotLockedByOther(p, req[p].id)
       THEN Catch(p, req[p], session[p], "Internal")
       ELSE Await(p, req[p], "create", NoLoc) /\ UNCHANGED session
    /\ UNCHANGED <<slots, slotIdsIssued, bookings>>

\* Lines 51-64: Slot.exists outside the transaction tells 409 from 404.
createBooking_exists(p) ==
    /\ pc[p] = "exists"
    /\ IF SlotFindById(req[p].id) # {}
       THEN Respond(p, req[p], "SlotFull")
       ELSE Respond(p, req[p], "NotFound")
    /\ UNCHANGED <<slots, slotIdsIssued, bookings, session>>

\* An index that is unique only among BOOKED reservations.
UniqueIndexRejects_m(slotId, candidateId) ==
    \E b \in BookingFindOne(slotId, candidateId) : b.status = "BOOKED"

\* Booking.js line 26: the unique index on (slotId, candidateId) rejects an
\* insert when the collection holds a document of the pair, whatever its
\* status.
UniqueIndexRejects(slotId, candidateId) == BookingFindOne(slotId, candidateId) # {}

\* A conditional update whose filter lacks the _id.
Incremented_m(id) == {IncBooked(s) : s \in slots}

\* The Slot collection as the handler's transaction sees it after its
\* conditional update of slot id.
Incremented(id) == {IF s._id = id THEN IncBooked(s) ELSE s : s \in slots}

\* An abort that leaves the transaction's writes in the collection.
AbortTransaction_m(committed, written) == written

\* Line 76: session.abortTransaction() drops what the transaction wrote;
\* the collection stays as committed.
AbortTransaction(committed, written) == committed

\* Line 69 and 75-87: Booking.create in the transaction; the unique index
\* on (slotId, candidateId) (Booking.js line 26) rejects a second document
\* of the pair with error 11000, the catch aborts (the increment is
\* dropped) and answers 409.
createBooking_create(p) ==
    /\ pc[p] = "create"
    /\ IF UniqueIndexRejects(req[p].id, req[p].user)
       THEN /\ Catch(p, req[p], session[p], "DuplicateBooking")
            /\ slots' = AbortTransaction(slots, Incremented(req[p].id))
       ELSE /\ Await(p, req[p], "commit", NoLoc)
            /\ UNCHANGED <<slots, session>>
    /\ UNCHANGED <<slotIdsIssued, bookings>>

\* A document built with the other status of the schema's enum.
NewBooking_m(slotId, candidateId) ==
    [_id |-> Cardinality(bookings) + 1, slotId |-> slotId,
     candidateId |-> candidateId, status |-> "CANCELLED"]

\* The document Booking.create builds (line 69).
NewBooking(slotId, candidateId) ==
    [_id |-> Cardinality(bookings) + 1, slotId |-> slotId,
     candidateId |-> candidateId, status |-> "BOOKED"]

\* Lines 71-73: commitTransaction makes the increment and the new
\* reservation visible together.
createBooking_commit(p) ==
    /\ pc[p] = "commit"
    /\ slots' = Incremented(req[p].id)
    /\ bookings' = bookings \cup {NewBooking(req[p].id, req[p].user)}
    /\ Respond(p, req[p], "Created")
    /\ Session(p, endSession(commitTransaction(session[p])))
    /\ UNCHANGED slotIdsIssued

\* ------------------------------------------------ bookingController.cancelBooking
\* Line 172: req.user is the User document that authenticate attached
\* (auth.js line 33); its schema (User.js) has the paths name, email and
\* role, so the property read req.user.userId yields undefined.
req_user_userId(user) == Undefined

\* candidateId.toString(), createdBy.toString(): the id as a string.
IdToString(id) == id

\* The ownership test with === for !==.
NotOwner_m(booking, userId) == IdToString(booking.candidateId) = userId

\* Line 199: booking.candidateId.toString() !== userId.
NotOwner(booking, userId) == IdToString(booking.candidateId) # userId

\* The decrement of line 228.
DecBooked(s) == [s EXCEPT !.bookedCount = s.bookedCount - 1]

\* The request as the handler keeps it; own records that, when the request
\* was fired, the reservation existed, was the candidate's and was BOOKED.
\* Lines 167-251.  The reads and writes all run in the handler's
\* transaction: the reservation is read, the status flip and the decrement
\* become visible together at commit, and a slot document held by another
\* transaction makes the decrement throw WriteConflict (catch: abort, 500).
cancelBooking(p) ==
    /\ Free(p)
    /\ \E c \in Candidates, id \in (1..(Cardinality(bookings) + 1)) \cup {BadId} :
          LET userId == req_user_userId(c)
              found == BookingFindById(id)
              r == [NoReq EXCEPT !.op = "Cancel", !.user = c, !.id = id,
                        !.own = \E b \in found : b.candidateId = c /\ b.status = "BOOKED"]
          IN
          IF ~ObjectIdIsValid(id)
          THEN /\ Respond(p, r, "InvalidIdentifier") /\ Session(p, abortAndEnd(startSession))
               /\ UNCHANGED <<slots, bookings>>
          ELSE IF found = {}
          THEN /\ Respond(p, r, "NotFound") /\ Session(p, abortAndEnd(startSession))
               /\ UNCHANGED <<slots, bookings>>
          ELSE LET booking == CHOOSE b \in found : TRUE IN
               IF NotOwner(booking, userId)
               THEN /\ Respond(p, r, "Forbidden") /\ Session(p, abortAndEnd(startSession))
                    /\ UNCHANGED <<slots, bookings>>
               ELSE IF booking.status = "CANCELLED"
               THEN /\ Respond(p, r, "AlreadyCancelled") /\ Session(p, abortAndEnd(startSession))
                    /\ UNCHANGED <<slots, bookings>>
               ELSE IF SlotLockedByOther(p, booking.slotId)
               THEN /\ Catch(p, r, startSession, "Internal")
                    /\ UNCHANGED <<slots, bookings>>
               ELSE /\ bookings' = (bookings \ {booking}) \cup
                           {[booking EXCEPT !.status = "CANCELLED"]}
                    /\ slots' = {IF s._id = booking.slotId THEN DecBooked(s) ELSE s :
                                    s \in slots}
                    /\ Respond(p, r, "OK")
                    /\ Session(p, endSession(commitTransaction(startSession)))
    /\ UNCHANGED slotIdsIssued

\* ------------------------------------------------ slotController.checkOverlap
\* The query with $lte for $lt in its first clause: a slot that starts where
\* the candidate interval ends counts as a conflict.
OverlapQuery_m(s, adminId, startTime, endTime, excludeSlotId) ==
    /\ s.createdBy = adminId
    /\ \/ (s.startTime <= endTime /\ s.startTime >= startTime)
       \/ (s.endTime > startTime /\ s.endTime <= endTime)
       \/ (s.startTime <= startTime /\ s.endTime >= endTime)
    /\ (excludeSlotId # BadId => s._id # excludeSlotId)

\* The query of lines 259-275 on one slot document; excludeSlotId is BadId
\* (falsy) when the caller passes none.
OverlapQuery(s, adminId, startTime, endTime, excludeSlotId) ==
    /\ s.createdBy = adminId
    /\ \/ (s.startTime < endTime /\ s.startTime >= startTime)
       \/ (s.endTime > startTime /\ s.endTime <= endTime)
       \/ (s.startTime <= startTime /\ s.endTime >= endTime)
    /\ (excludeSlotId # BadId => s._id # excludeSlotId)

\* Lines 277-278: Slot.findOne(query) found a document.
checkOverlap(adminId, startTime, endTime, excludeSlotId) ==
    \E s \in slots : OverlapQuery(s, adminId, startTime, endTime, excludeSlotId)

\* ------------------------------------------------ slotController.createSlot
\* Slot _ids are never reused; the model stops issuing them at MaxSlots.
CreatesInFlight == Cardinality({q \in DOMAIN pc : req[q].op = "Create" /\ pc[q] = "save"})

\* Lines 317-323: new Slot({...}); bookedCount takes the schema default.
NewSlot(a, start, end, capacity) ==
    [_id |-> 0, startTime |-> start, endTime |-> end, capacity |-> capacity,
     bookedCount |-> 0, createdBy |-> a, tags |-> NoTags]

\* Lines 284-323: validation, the overlap query, and the new document.
createSlot_check(p) ==
    /\ Free(p)
    /\ slotIdsIssued + CreatesInFlight < MaxSlots
    /\ \E a \in Admins, start \in Times, end \in Times, capacity \in 0..MaxCapacity :
          LET r == [NoReq EXCEPT !.op = "Create", !.user = a] IN
          IF start >= end
          THEN Respond(p, r, "InvalidInterval")
          ELSE IF capacity < 1
          THEN Respond(p, r, "InvalidCapacity")
          ELSE IF checkOverlap(a, start, end, BadId)
          THEN Respond(p, r, "IntervalConflict")
          ELSE Await(p, r, "save", [read |-> NoSlot, doc |-> NewSlot(a, start, end, capacity)])
    /\ UNCHANGED <<slots, slotIdsIssued, bookings, session>>

\* Lines 325-326: slot.save() inserts the document.
createSlot_save(p) ==
    /\ req[p].op = "Create"
    /\ pc[p] = "save"
    /\ slotIdsIssued' = slotIdsIssued + 1
    /\ slots' = slots \cup {[loc[p].doc EXCEPT !._id = slotIdsIssued + 1]}
    /\ Respond(p, req[p], "Created")
    /\ UNCHANGED <<bookings, session>>

\* ------------------------------------------------ slotController.updateSlot
\* The capacity check with <= for <.
CapacityRejected_m(capacity, doc) == capacity # Absent /\ capacity <= doc.bookedCount

\* Line 462 on the document in memory: the request's capacity against the
\* bookedCount read by findById.
CapacityRejected(capacity, doc) == capacity # Absent /\ capacity < doc.bookedCount

\* Lines 461 and 469.
WithCapacity(capacity, doc) ==
    IF capacity = Absent THEN doc ELSE [doc EXCEPT !.capacity = capacity]

\* Line 433: the request carries a time field.
HasTimes(r) == r.startTime # Absent \/ r.endTime # Absent

\* Lines 412-443: findById, the owner check, the new interval.  moves
\* records that the request carries a time field and that its interval is
\* not the stored one.
updateSlot_find(p) ==
    /\ Free(p)
    /\ \E a \in Admins, slotId \in SlotIds,
          start \in Times \cup {Absent}, end \in Times \cup {Absent},
          capacity \in (0..MaxCapacity) \cup {Absent} :
          LET r == [NoReq EXCEPT !.op = "Update", !.user = a, !.id = slotId,
                                 !.startTime = start, !.endTime = end,
                                 !.capacity = capacity]
              found == SlotFindById(slotId)
          IN
          IF found = {}
          THEN Respond(p, r, "NotFound")
          ELSE LET slot == CHOOSE s \in found : TRUE
                   newStart == IF start # Absent THEN start ELSE slot.startTime
                   newEnd == IF end # Absent THEN end ELSE slot.endTime
               IN
               IF IdToString(slot.createdBy) # IdToString(a)
               THEN Respond(p, r, "Forbidden")
               ELSE IF HasTimes(r) /\ newStart >= newEnd
               THEN Respond(p, r, "InvalidInterval")
               ELSE Await(p, [r EXCEPT !.startTime = IF HasTimes(r) THEN newStart ELSE Absent,
                                       !.endTime = IF HasTimes(r) THEN newEnd ELSE Absent,
                                       !.moves = /\ HasTimes(r)
                                                 /\ <<newStart, newEnd>> #
                                                        <<slot.startTime, slot.endTime>>],
                          "check",
                          [read |-> slot,
                           doc |-> [slot EXCEPT !.startTime = newStart,
                                                !.endTime = newEnd]])
    /\ UNCHANGED <<slots, slotIdsIssued, bookings, session>>

\* A handler that writes the document in memory when it rejects.
Unsaved_m(committed, doc) == {IF s._id = doc._id THEN doc ELSE s : s \in committed}

\* Lines 456-457 assign to the document in memory; a return before
\* slot.save() (line 474) writes nothing of it: the collection stays as
\* committed.
Unsaved(committed, doc) == committed

\* Lines 446-470: for a request with a time field the overlap query that
\* excludes the slot itself; then the capacity check on the document in
\* memory, which runs without an await in between.
updateSlot_check(p) ==
    /\ pc[p] = "check"
    /\ IF /\ HasTimes(req[p])
          /\ checkOverlap(req[p].user, loc[p].doc.startTime, loc[p].doc.endTime, req[p].id)
       THEN /\ Respond(p, req[p], "IntervalConflict")
            /\ slots' = Unsaved(slots, loc[p].read)
       ELSE IF CapacityRejected(req[p].capacity, loc[p].doc)
       THEN /\ Respond(p, req[p], "CapacityConflict")
            /\ slots' = Unsaved(slots, loc[p].doc)
       ELSE /\ Await(p, req[p], "save",
                     [read |-> loc[p].read,
                      doc |-> WithCapacity(req[p].capacity, loc[p].doc)])
            /\ UNCHANGED slots
    /\ UNCHANGED <<slotIdsIssued, bookings, session>>

\* The paths slot.save() sends in $set: those whose value differs from the
\* value read.
Modified(read, doc) ==
    {f \in {"startTime", "endTime", "capacity"} : doc[f] # read[f]}

SetPaths(s, doc, paths) ==
    [f \in DOMAIN s |-> IF f \in paths THEN doc[f] ELSE s[f]]

\* Lines 474-483: slot.save().  Nothing modified: no write.  The schema's
\* validator (Slot.js: capacity min 1) throws before the write; the write
\* waits for a transaction that holds the document and throws when the
\* document is gone.
updateSlot_save(p) ==
    /\ req[p].op = "Update"
    /\ pc[p] = "save"
    /\ LET paths == Modified(loc[p].read, loc[p].doc) IN
       IF paths = {}
       THEN Respond(p, req[p], "OK") /\ UNCHANGED slots
       ELSE IF loc[p].doc.capacity < 1
       THEN Respond(p, req[p], "Internal") /\ UNCHANGED slots
       ELSE /\ ~SlotLockedByOther(p, req[p].id)
            /\ IF SlotFindById(req[p].id) = {}
               THEN Respond(p, req[p], "Internal") /\ UNCHANGED slots
               ELSE /\ slots' = {IF s._id = req[p].id
                                 THEN SetPaths(s, loc[p].doc, paths) ELSE s : s \in slots}
                    /\ Respond(p, req[p], "OK")
    /\ UNCHANGED <<slotIdsIssued, bookings, session>>

\* ------------------------------------------------ slotController.deleteSlot
\* Lines 490-514: findById, the owner check, the bookedCount guard.
deleteSlot_find(p) ==
    /\ Free(p)
    /\ \E a \in Admins, slotId \in SlotIds :
          LET found == SlotFindById(slotId)
              r == [NoReq EXCEPT !.op = "Delete", !.user = a, !.id = slotId]
          IN
          IF found = {}
          THEN Respond(p, r, "NotFound")
          ELSE LET slot == CHOOSE s \in found : TRUE IN
               IF IdToString(slot.createdBy) # IdToString(a)
               THEN Respond(p, r, "Forbidden")
               ELSE IF slot.bookedCount > 0
               THEN Respond(p, r, "HasActiveBookings")
               ELSE Await(p, r, "delete", NoLoc)
    /\ UNCHANGED <<slots, slotIdsIssued, bookings, session>>

\* Lines 516-517: findByIdAndDelete waits for a transaction that holds the
\* document.
deleteSlot_delete(p) ==
    /\ pc[p] = "delete"
    /\ ~SlotLockedByOther(p, req[p].id)
    /\ slots' = {s \in slots : s._id # req[p].id}
    /\ Respond(p, req[p], "OK")
    /\ UNCHANGED <<slotIdsIssued, bookings, session>>

\* ------------------------------------------------------------ the system
Next ==
    \E p \in Procs :
        \/ createBooking_check(p)
        \/ createBooking_inc(p)
        \/ createBooking_exists(p)
        \/ createBooking_create(p)
        \/ createBooking_commit(p)
        \/ cancelBooking(p)
        \/ createSlot_check(p)
        \/ createSlot_save(p)
        \/ updateSlot_find(p)
        \/ updateSlot_check(p)
        \/ updateSlot_save(p)
        \/ deleteSlot_find(p)
        \/ deleteSlot_delete(p)

Spec == Init /\ [][Next]_vars

\* ------------------------------------------------ store errors in a booking
\* Line 69 throws an error other than 11000 (the store fails the insert):
\* the catch (lines 75-92) aborts the transaction, ends the session and
\* answers 500.
createBooking_create_throws(p) ==
    /\ pc[p] = "create"
    /\ Catch(p, req[p], session[p], "Internal")
    /\ slots' = AbortTransaction(slots, Incremented(req[p].id))
    /\ UNCHANGED <<slotIdsIssued, bookings>>

\* Line 71 throws (the store rejects the commit; nothing of the transaction
\* becomes visible).  The catch calls session.abortTransaction() on a
\* transaction whose commit was already called; the driver throws and the
\* handler's promise rejects.
createBooking_commit_throws(p) ==
    /\ pc[p] = "commit"
    /\ Catch(p, req[p], commitTransaction(session[p]), "Internal")
    /\ slots' = AbortTransaction(slots, Incremented(req[p].id))
    /\ UNCHANGED <<slotIdsIssued, bookings>>

\* Line 52 throws (the store fails Slot.exists).  The transaction was
\* aborted and the session ended at lines 48-49; the catch calls
\* session.abortTransaction() again, the driver throws and the handler's
\* promise rejects.
createBooking_exists_throws(p) ==
    /\ pc[p] = "exists"
    /\ Catch(p, req[p], session[p], "Internal")
    /\ UNCHANGED <<slots, slotIdsIssued, bookings>>

NextFaults ==
    \/ Next
    \/ \E p \in Procs : createBooking_create_throws(p)
    \/ \E p \in Procs : createBooking_commit_throws(p)
    \/ \E p \in Procs : createBooking_exists_throws(p)

SpecFaults == Init /\ [][NextFaults]_vars

\* --------------------------------- bookings and deletions, one handler more
\* The booking and deletion handlers alone, with one more handler instance
\* than Procs, on the start-up stores whose slot spans the whole horizon.
Procs3 == 1..(NumRequests + 1)

InitBookDelete ==
    /\ \E db \in SeedStores :
          /\ \A s \in db.slots : /\ s.startTime = 1 /\ s.endTime = MaxTime
                                 /\ s.bookedCount <= s.capacity
          /\ slots = db.slots
          /\ slotIdsIssued = db.issued
          /\ bookings = db.bookings
    /\ pc = [p \in Procs3 |-> "idle"]
    /\ req = [p \in Procs3 |-> NoReq]
    /\ loc = [p \in Procs3 |-> NoLoc]
    /\ res = [p \in Procs3 |-> "-"]
    /\ session = [p \in Procs3 |-> NoSession]

NextBookDelete ==
    \E p \in Procs3 :
        \/ createBooking_check(p)
        \/ createBooking_inc(p)
        \/ createBooking_exists(p)
        \/ createBooking_create(p)
        \/ createBooking_commit(p)
        \/ deleteSlot_find(p)
        \/ deleteSlot_delete(p)

SpecBookDelete == InitBookDelete /\ [][NextBookDelete]_vars

\* ------------------------------------- checkOverlap on arbitrary collections
\* Every collection of at most MaxSlots slot documents with startTime <
\* endTime, whoever owns them and whether or not they overlap: for each
\* _id either no document (NoSlot) or one.
AnyDocs ==
    {[_id |-> 0, startTime |-> s, endTime |-> e, capacity |-> 1, bookedCount |-> 0,
      createdBy |-> a, tags |-> NoTags] :
        s \in Times, e \in Times, a \in Admins}

AnyStores ==
    {{[f[i] EXCEPT !._id = i] : i \in {j \in SlotIds : f[j] # NoSlot}} :
        f \in [SlotIds -> {NoSlot} \cup {d \in AnyDocs : d.startTime < d.endTime}]}

InitOverlap ==
    /\ slots \in AnyStores
    /\ slotIdsIssued = MaxSlots
    /\ bookings = {}
    /\ pc = [p \in Procs |-> "idle"]
    /\ req = [p \in Procs |-> NoReq]
    /\ loc = [p \in Procs |-> NoLoc]
    /\ res = [p \in Procs |-> "-"]
    /\ session = [p \in Procs |-> NoSession]

\* One call checkOverlap(adminId, startTime, endTime, excludeSlotId) with
\* startTime < endTime; the result is kept in res.
checkOverlap_call(p) ==
    /\ pc[p] = "idle"
    /\ \E a \in Admins, start \in Times, end \in Times, excludeSlotId \in SlotIds \cup {BadId} :
          /\ start < end
          /\ pc' = [pc EXCEPT ![p] = "done"]
          /\ req' = [req EXCEPT ![p] =
                [NoReq EXCEPT !.op = "Overlap", !.user = a, !.id = excludeSlotId,
                              !.startTime = start, !.endTime = end]]
          /\ res' = [res EXCEPT ![p] =
                IF checkOverlap(a, start, end, excludeSlotId) THEN "true" ELSE "false"]
    /\ UNCHANGED <<slots, slotIdsIssued, bookings, loc, session>>

NextOverlap == checkOverlap_call(1)

SpecOverlap == InitOverlap /\ [][NextOverlap]_vars

\* ================================================================ claims
\* Handler p takes the step that fires its request.
Fires(p, op) == pc[p] = "idle" /\ pc'[p] # "idle" /\ req'[p].op = op

\* C1: for every stored slot, bookedCount equals the number of reservations
\* that reference the slot and have status BOOKED.
C1_CountMatchesActive ==
    \A s \in slots :
        s.bookedCount = Cardinality({b \in bookings : b.slotId = s._id /\ b.status = "BOOKED"})

\* A booking committed while an update of the same slot was served, and the
\* slot now holds two BOOKED reservations.
C1_Witness ==
    \E p \in Procs, q \in Procs :
        /\ req[p].op = "Book" /\ res[p] = "Created"
        /\ req[q].op = "Update" /\ res[q] = "OK" /\ req[q].id = req[p].id
        /\ \E s \in slots : s._id = req[p].id /\ s.bookedCount = 2

\* C2: every stored slot satisfies 0 <= bookedCount <= capacity.
C2_BookedWithinCapacity ==
    \A s \in slots : 0 <= s.bookedCount /\ s.bookedCount <= s.capacity

\* C3: Book requests by distinct candidates, fired on a slot of capacity 1
\* with no seat taken and no reservation of theirs, end with exactly one
\* success and SlotFull for every other one.
C3_OneWinnerOthersFull ==
    \A p \in Procs, q \in Procs :
        ( /\ p # q
          /\ pc[p] = "done" /\ pc[q] = "done"
          /\ req[p].op = "Book" /\ req[q].op = "Book"
          /\ req[p].id = req[q].id /\ req[p].user # req[q].user
          /\ req[p].fresh /\ req[q].fresh )
        => {res[p], res[q]} = {"Created", "SlotFull"}

\* C4: a Book request of a candidate who holds a BOOKED reservation on the
\* slot is answered DuplicateBooking at once and changes neither collection.
C4_DuplicateRejected ==
    [][\A p \in Procs :
          ( /\ Fires(p, "Book")
            /\ \E b \in bookings : /\ b.slotId = req'[p].id
                                   /\ b.candidateId = req'[p].user
                                   /\ b.status = "BOOKED" )
          => ( /\ pc'[p] = "done"
               /\ res'[p] = "DuplicateBooking"
               /\ slots' = slots
               /\ bookings' = bookings )]_vars

\* A lone Book request was answered DuplicateBooking on a full slot.
C4_Witness ==
    /\ req[1].op = "Book" /\ res[1] = "DuplicateBooking" /\ pc[2] = "idle"
    /\ \E s \in slots : s._id = req[1].id /\ s.bookedCount = s.capacity
    /\ \E b \in bookings : /\ b.slotId = req[1].id /\ b.candidateId = req[1].user
                           /\ b.status = "BOOKED"

\* C5: a Cancel request of the candidate who made the reservation, on a
\* BOOKED reservation, succeeds: the status becomes CANCELLED and the
\* slot's bookedCount decreases by exactly 1.
C5_OwnCancelSucceeds ==
    [][\A p \in Procs : \A b \in bookings :
          ( /\ Fires(p, "Cancel")
            /\ b._id = req'[p].id
            /\ b.candidateId = req'[p].user
            /\ b.status = "BOOKED"
            /\ \A q \in Procs : ~HoldsSlot(q, b.slotId) )
          => ( /\ res'[p] = "OK"
               /\ [b EXCEPT !.status = "CANCELLED"] \in bookings'
               /\ \A s \in slots : s._id = b.slotId =>
                     [s EXCEPT !.bookedCount = s.bookedCount - 1] \in slots' )]_vars

\* C6: a Cancel request of the reservation's own candidate on a CANCELLED
\* reservation is answered AlreadyCancelled and changes neither collection.
C6_SecondCancelRejected ==
    [][\A p \in Procs : \A b \in bookings :
          ( /\ Fires(p, "Cancel")
            /\ b._id = req'[p].id
            /\ b.candidateId = req'[p].user
            /\ b.status = "CANCELLED" )
          => ( /\ res'[p] = "AlreadyCancelled"
               /\ slots' = slots
               /\ bookings' = bookings )]_vars

\* C7: in a sequential run on a slot of capacity 1, once the candidate who
\* holds the seat has cancelled (the only other request, if any, being the
\* Book that gave the seat), bookedCount is 0 and the seat can be booked
\* again.
C7_CancelFreesSeat ==
    \A p \in Procs :
        ( /\ pc[p] = "done" /\ req[p].op = "Cancel" /\ req[p].own
          /\ \A q \in Procs \ {p} :
                \/ pc[q] = "idle"
                \/ /\ pc[q] = "done" /\ req[q].op = "Book" /\ res[q] = "Created"
                   /\ req[q].user = req[p].user )
        => \A b \in bookings : \A s \in slots :
              (b._id = req[p].id /\ s._id = b.slotId /\ s.capacity = 1)
              => s.bookedCount = 0

C9_NoOverlapSameOwner ==
    \A s \in slots, d \in slots :
        (s._id # d._id /\ s.createdBy = d.createdBy)
        => ~(s.startTime < d.endTime /\ d.startTime < s.endTime)

\* The interval of an update at its check conflicts with another slot of
\* the requesting admin.
C10_IntervalConflict(p) ==
    /\ pc[p] = "check"
    /\ (req[p].startTime # Absent \/ req[p].endTime # Absent)
    /\ \E d \in slots : /\ d.createdBy = req[p].user /\ d._id # req[p].id
                        /\ d.startTime < loc[p].doc.endTime
                        /\ loc[p].doc.startTime < d.endTime

\* The update handler p, whose request carries a capacity, takes a step of
\* its capacity check or of its save; at the save the slot document is as
\* the handler read it.
C10_Step(p) ==
    /\ req[p].op = "Update" /\ req[p].capacity # Absent
    /\ pc[p] \in {"check", "save"} /\ pc'[p] # pc[p]
    /\ ~C10_IntervalConflict(p)
    /\ (pc[p] = "save" => {s \in slots : s._id = req[p].id} = {loc[p].read})

C10_Rejected(p) ==
    /\ pc'[p] = "done" /\ res'[p] = "CapacityConflict" /\ slots' = slots

C10_Stored(p) ==
    /\ pc'[p] = "done" /\ res'[p] = "OK"
    /\ \E s \in slots' : s._id = req[p].id /\ s.capacity = req[p].capacity

C11_NoActiveOnDeletedSlot ==
    \A b \in bookings : b.status = "BOOKED" => SlotFindById(b.slotId) # {}

\* C12: there is at most one reservation, of any status, for each pair of
\* slot and candidate.
C12_OnePerPair ==
    \A b \in bookings, c \in bookings :
        (b.slotId = c.slotId /\ b.candidateId = c.candidateId) => b = c

\* A candidate whose reservation on the slot is CANCELLED asked to book the
\* slot again while it had a free seat; the insert was refused and the pair
\* still has its one reservation.
C12_Witness ==
    \E p \in Procs :
        /\ req[p].op = "Book" /\ res[p] = "DuplicateBooking"
        /\ \E b \in bookings : /\ b.slotId = req[p].id /\ b.candidateId = req[p].user
                               /\ b.status = "CANCELLED"
        /\ \E s \in slots : s._id = req[p].id /\ s.bookedCount < s.capacity

\* C13: when the conditional update matched nothing, the request is answered
\* NotFound exactly when there was no slot of that id when the update ran,
\* and SlotFull exactly when there was one and it was full, whatever runs
\* between the update and the existence check.
C13_FullOrMissingAsSeen ==
    [][\A p \in DOMAIN pc :
          (pc[p] = "exists" /\ pc'[p] = "done")
          => ( /\ res'[p] = "NotFound" <=> loc[p].read = NoSlot
               /\ res'[p] = "SlotFull" <=>
                     ( /\ loc[p].read # NoSlot
                       /\ loc[p].read.bookedCount = loc[p].read.capacity ) )]_vars

\* C14: a Cancel request of a candidate other than the reservation's own is
\* answered Forbidden, whatever the reservation's status, and changes
\* neither collection.
C14_OtherCandidateForbidden ==
    [][\A p \in Procs : \A b \in bookings :
          ( /\ Fires(p, "Cancel")
            /\ b._id = req'[p].id
            /\ b.candidateId # req'[p].user )
          => ( /\ pc'[p] = "done"
               /\ res'[p] = "Forbidden"
               /\ slots' = slots
               /\ bookings' = bookings )]_vars

\* Two candidates were refused, one on the other's BOOKED reservation and
\* one on the other's CANCELLED reservation.
C14_Witness ==
    \E b \in bookings, c \in bookings :
        /\ b.status = "BOOKED" /\ c.status = "CANCELLED"
        /\ req[1].op = "Cancel" /\ req[1].id = b._id /\ req[1].user # b.candidateId
        /\ req[2].op = "Cancel" /\ req[2].id = c._id /\ req[2].user # c.candidateId
        /\ res[1] = "Forbidden" /\ res[2] = "Forbidden"

\* C15: the capacity that an update commits is not lower than the slot's
\* bookedCount at that moment.
C15_CommittedCapacityCoversBooked ==
    [][\A p \in Procs :
          ( /\ req[p].op = "Update" /\ req[p].capacity # Absent
            /\ pc[p] = "save" /\ pc'[p] = "done" /\ res'[p] = "OK" )
          => \A s \in slots' : s._id = req[p].id => s.bookedCount <= s.capacity]_vars

\* C16: a step of a booking or cancellation handler that does not answer
\* success leaves both collections as they were; so does every request that
\* ends in a failure, a store error at the insert or at the commit included.
C16_FailureChangesNothing ==
    [][\A p \in Procs :
          ( /\ pc'[p] # pc[p]
            /\ req'[p].op \in {"Book", "Cancel"}
            /\ res'[p] \notin {"Created", "OK"} )
          => (slots' = slots /\ bookings' = bookings)]_vars

\* The only request served was a booking on a slot with a free seat, by a
\* candidate without a reservation on it; it ended in a store error after
\* the conditional update, and the slot has no seat taken.
C16_Witness ==
    /\ pc[2] = "idle" /\ req[1].op = "Book"
    /\ \/ (pc[1] = "done" /\ res[1] = "Internal")
       \/ pc[1] = "crashed"
    /\ BookingFindOne(req[1].id, req[1].user) = {}
    /\ \E s \in slots : s._id = req[1].id /\ s.bookedCount = 0

\* C17: of two Cancel requests of the reservation's own candidate, both
\* fired while the reservation was BOOKED, exactly one succeeds; the
\* reservation is CANCELLED and the slot's bookedCount is the number of its
\* BOOKED reservations.
C17_OneCancelCommits ==
    \A p \in Procs, q \in Procs : \A b \in bookings :
        ( /\ p < q
          /\ pc[p] = "done" /\ pc[q] = "done"
          /\ req[p].op = "Cancel" /\ req[q].op = "Cancel"
          /\ req[p].own /\ req[q].own
          /\ req[p].id = b._id /\ req[q].id = b._id )
        => ( /\ Cardinality({r \in {p, q} : res[r] = "OK"}) = 1
             /\ b.status = "CANCELLED"
             /\ \A s \in slots : s._id = b.slotId =>
                   s.bookedCount = Cardinality({c \in bookings :
                                       c.slotId = s._id /\ c.status = "BOOKED"}) )

\* C18: of two Book requests of one candidate for one slot that both passed
\* the duplicate check, the one that ends while the other holds or has
\* committed its reservation is answered DuplicateBooking (SlotFull when no
\* seat is left) and changes neither collection.
C18_LoserIsDuplicate ==
    [][\A p \in Procs, q \in Procs :
          ( /\ p # q
            /\ req[p].op = "Book" /\ req[q].op = "Book"
            /\ req[p].id = req[q].id /\ req[p].user = req[q].user
            /\ \/ pc[p] \in {"create", "commit"}
               \/ pc[p] = "done" /\ res[p] = "Created"
            /\ pc[q] \in {"inc", "exists", "create"} /\ pc'[q] = "done" )
          => ( /\ res'[q] \in {"DuplicateBooking", "SlotFull"}
               /\ slots' = slots
               /\ bookings' = bookings )]_vars

\* C19: a Book request of a candidate whose reservation on the slot is
\* CANCELLED, the slot still stored, has ended with DuplicateBooking or
\* SlotFull.
C19_RebookRejected ==
    \A p \in Procs :
        ( /\ pc[p] = "done" /\ req[p].op = "Book"
          /\ SlotFindById(req[p].id) # {}
          /\ \E b \in bookings : /\ b.slotId = req[p].id /\ b.candidateId = req[p].user
                                 /\ b.status = "CANCELLED" )
        => res[p] \in {"DuplicateBooking", "SlotFull"}

\* C20: every reservation stays in the collection with its slot and
\* candidate, its status unchanged or changed from BOOKED to CANCELLED, and
\* a reservation that enters the collection is BOOKED.
C20_ReservationLifecycle ==
    [][/\ \A b \in bookings : \E c \in bookings' :
             /\ c._id = b._id /\ c.slotId = b.slotId /\ c.candidateId = b.candidateId
             /\ (c.status = b.status \/ (b.status = "BOOKED" /\ c.status = "CANCELLED"))
       /\ \A c \in bookings' :
             (\A b \in bookings : b._id # c._id) => c.status = "BOOKED"]_vars

\* A slot was deleted and a reservation made by a request is BOOKED on it
\* beside an older CANCELLED one.
C20_Witness ==
    \E p \in Procs, q \in Procs :
        /\ req[p].op = "Delete" /\ res[p] = "OK"
        /\ req[q].op = "Book" /\ res[q] = "Created" /\ req[q].id = req[p].id
        /\ SlotFindById(req[p].id) = {}
        /\ \E b \in bookings : b.slotId = req[p].id /\ b.status = "BOOKED"
        /\ \E b \in bookings : b.slotId = req[p].id /\ b.status = "CANCELLED"

\* C21: an update or deletion that is rejected with NotFound, Forbidden,
\* InvalidInterval, IntervalConflict, CapacityConflict or HasActiveBookings
\* leaves the Slot collection as it was.
C21_RejectedPersistsNothing ==
    [][\A p \in Procs :
          ( /\ pc'[p] # pc[p] /\ pc'[p] = "done"
            /\ req'[p].op \in {"Update", "Delete"}
            /\ res'[p] \in {"NotFound", "Forbidden", "InvalidInterval",
                            "IntervalConflict", "CapacityConflict", "HasActiveBookings"} )
          => (slots' = slots /\ bookings' = bookings)]_vars

\* The only request served was an update that carried a new interval, free
\* of conflicts, and a capacity below the bookedCount; it was rejected, and
\* the slot is stored.
C21_Witness ==
    /\ pc[2] = "idle"
    /\ req[1].op = "Update" /\ req[1].moves /\ res[1] = "CapacityConflict"
    /\ SlotFindById(req[1].id) # {}

\* C22: every stored slot has startTime < endTime and capacity >= 1.
C22_ValidSlots ==
    \A s \in slots : s.startTime < s.endTime /\ s.capacity >= 1

\* C23: a booking or cancellation handler that is no longer at one of its
\* awaits has answered its request.
C23_EveryRequestAnswered ==
    \A p \in Procs :
        ( /\ req[p].op \in {"Book", "Cancel"}
          /\ pc[p] \notin {"inc", "exists", "create", "commit"} )
        => (pc[p] = "done" /\ res[p] # "-")

\* The slot a booking or cancellation request is about: the requested slot,
\* or the slot of the requested reservation.
TargetSlot(r) ==
    IF r.op = "Book" THEN {r.id} ELSE {b.slotId : b \in BookingFindById(r.id)}

\* b is the reservation the request is about.
TargetBooking(r, b) ==
    IF r.op = "Book" THEN b.slotId = r.id /\ b.candidateId = r.user
    ELSE b._id = r.id

\* C24: a step of a booking or cancellation handler changes at most the
\* bookedCount of the request's slot and the reservation of the request's
\* pair: every other slot and reservation stays as it is, and the slot keeps
\* startTime, endTime, capacity, createdBy and tags.
C24_OnlyTargetChanges ==
    [][\A p \in Procs :
          (pc'[p] # pc[p] /\ req'[p].op \in {"Book", "Cancel"})
          => ( /\ \A s \in slots :
                     IF s._id \in TargetSlot(req'[p])
                     THEN \E d \in slots' : d = [s EXCEPT !.bookedCount = d.bookedCount]
                     ELSE s \in slots'
               /\ \A d \in slots' : \E s \in slots : s._id = d._id
               /\ \A b \in bookings : TargetBooking(req'[p], b) \/ b \in bookings'
               /\ \A b \in bookings' : TargetBooking(req'[p], b) \/ b \in bookings )]_vars

\* A booking on slot 2 succeeded while slot 1 is stored with a seat taken
\* and a reservation on it.
C24_Witness ==
    \E p \in Procs :
        /\ req[p].op = "Book" /\ req[p].id = 2 /\ res[p] = "Created"
        /\ \E s \in slots : s._id = 1 /\ s.bookedCount >= 1
        /\ \E s \in slots : s._id = 2 /\ s.bookedCount = 1
        /\ \E b \in bookings : b.slotId = 1 /\ b.status = "BOOKED"

\* C25: when a booking or cancellation handler has returned, it has called
\* exactly one of commitTransaction and abortTransaction, once, and
\* endSession once.
C25_FinishedAndEndedOnce ==
    \A p \in Procs :
        (req[p].op \in {"Book", "Cancel"} /\ pc[p] \in {"done", "crashed"})
        => ( /\ session[p].commits + session[p].aborts = 1
             /\ session[p].ends = 1 )

====
